---- MODULE Spec2Model ----
(***************************************************************************)
(* Model of the bingo replay of day4.py (Board, Bingo) and of the          *)
(* hydrothermal vents map of day5.py (Point, Segment,                     *)
(* HydrothermalVentsMap).                                                  *)
(*                                                                         *)
(* A Bingo is built by Bingo.from_str from a draw line and board blocks;   *)
(* Bingo.__post_init__ then replays the draws over the boards.  After the  *)
(* construction the caller queries first_winning_board(),                  *)
(* last_winning_board() and Board.score().                                 *)
(*                                                                         *)
(* Python indexes are 0-based, the model's are 1-based: board i of the     *)
(* model is boards[i-1] of the code, draw k is drawn_numbers[k-1].         *)
(***************************************************************************)
EXTENDS Integers, Sequences, FiniteSets, TLC

\* Bounds of the model: numbers on boards and draws are in 0..MaxVal, a
\* board is a grid of 1..MaxRows rows and 1..MaxCols columns (each board of
\* a game has its own shape, as Board.from_str allows), a game has at most
\* MaxBoards boards and between 1 and MaxDraws draws.
MaxVal == 1
MaxRows == 2
MaxCols == 2
MaxBoards == 2
MaxDraws == 3

Values == 0..MaxVal

\* Optional[int]: None is the empty sequence, an int v is <<v>>.
None == <<>>
Some(v) == <<v>>

VARIABLES
    drawn_numbers,      \* Bingo.drawn_numbers
    boards,             \* Bingo.boards: sequence of [numbers, marked, winning_number]
    winning_board_idx,  \* Bingo.winning_board_idx
    num_idx,            \* position of the loop `for num in self.drawn_numbers`
    pc,                 \* position inside Bingo.__post_init__, "done" once built
    ret                 \* outcome of the last query made on the built Bingo

vars == <<drawn_numbers, boards, winning_board_idx, num_idx, pc, ret>>

\* State of the hydrothermal vents map (day5.py)
VARIABLES
    raw_segments,   \* the text given to HydrothermalVentsMap.from_str
    endpoints,      \* the two Points each Segment was constructed from
    segments,       \* HydrothermalVentsMap.segments
    vpc,            \* "parse" before from_str, "ready" once the map is
                    \* built, "failed" when from_str raised
    vret,           \* outcome of the last call made on the map
    first_ret       \* outcome of the first call of each method of the map

vents_vars == <<raw_segments, endpoints, segments, vpc, vret, first_ret>>

\* State of a call of one of the functions of advent.py and day3.py
VARIABLES
    argument,       \* the argument given to the function
    outcome         \* the function called, and what it returned or raised

fn_vars == <<argument, outcome>>

all_vars == <<vars, vents_vars, fn_vars>>

\* No call has returned yet
NoRet == [op |-> "", seg |-> 0, error |-> "", points |-> <<>>, count |-> 0,
          again |-> FALSE]

\* No function has been called yet
NoOutcome == [fn |-> "", error |-> "", value |-> <<>>]

\* No function call is involved in a bingo game or in a vents map
FnIdle == argument = <<>> /\ outcome = NoOutcome

\* No vents map is involved in a bingo game
VentsIdle ==
    /\ raw_segments = <<>>
    /\ endpoints = <<>>
    /\ segments = <<>>
    /\ vpc = "failed"
    /\ vret = NoRet
    /\ first_ret = {}

\* No bingo game is involved in a vents map
BingoIdle ==
    /\ drawn_numbers = <<>>
    /\ boards = <<>>
    /\ winning_board_idx = <<>>
    /\ num_idx = 0
    /\ pc = "done"
    /\ ret = [op |-> "", board |-> 0, error |-> "", value |-> 0]

----------------------------------------------------------------------------
(* Board *)

\* The arrays Board.from_str builds: np.array of the rows of a text block
NumbersGrids ==
    UNION {[1..nr -> [1..nc -> Values]] : nr \in 1..MaxRows, nc \in 1..MaxCols}

\* numbers.shape / marked.shape of a 2-dimensional array
Shape(grid) == <<Len(grid), IF Len(grid) = 0 THEN 0 ELSE Len(grid[1])>>

\* np.zeros_like(self.numbers, dtype=bool)
ZerosLike(grid) == [r \in DOMAIN grid |-> [c \in DOMAIN grid[r] |-> FALSE]]

\* Board.__post_init__ after the dataclass __init__
NewBoard(nums) ==
    [numbers |-> nums, marked |-> ZerosLike(nums), winning_number |-> None]

\* Row and column (1-based) of the k-th cell (k = 0, 1, ...) in the row-major
\* order that np.ndenumerate and boolean-mask indexing follow.
RowOf(grid, k) == (k \div Shape(grid)[2]) + 1
ColOf(grid, k) == (k % Shape(grid)[2]) + 1
Size(grid) == Shape(grid)[1] * Shape(grid)[2]

RECURSIVE SumUnmarkedFrom(_, _, _)
SumUnmarkedFrom(nums, mk, k) ==
    IF k >= Size(nums) THEN 0
    ELSE (IF mk[RowOf(nums, k)][ColOf(nums, k)] THEN 0
          ELSE nums[RowOf(nums, k)][ColOf(nums, k)])
         + SumUnmarkedFrom(nums, mk, k + 1)

\* Variant of unmarked_sum that forgets the negation of the mask
RECURSIVE SumMarkedFrom(_, _, _)
SumMarkedFrom(nums, mk, k) ==
    IF k >= Size(nums) THEN 0
    ELSE (IF mk[RowOf(nums, k)][ColOf(nums, k)]
          THEN nums[RowOf(nums, k)][ColOf(nums, k)] ELSE 0)
         + SumMarkedFrom(nums, mk, k + 1)

unmarked_sum_NoNegation(board) == SumMarkedFrom(board.numbers, board.marked, 0)

\* Board.unmarked_sum: self.numbers[~self.marked].sum()
unmarked_sum(board) == SumUnmarkedFrom(board.numbers, board.marked, 0)

\* Variant of do_we_have_a_winner that looks at the rows only
do_we_have_a_winner_RowsOnly(board) ==
    \E r \in DOMAIN board.marked :
        \A c \in DOMAIN board.marked[r] : board.marked[r][c]

\* Variant of do_we_have_a_winner that also accepts the main diagonal
do_we_have_a_winner_Diagonal(board) ==
    \/ \E r \in DOMAIN board.marked :
          \A c \in DOMAIN board.marked[r] : board.marked[r][c]
    \/ \E c \in 1..Shape(board.marked)[2] :
          \A r \in DOMAIN board.marked : board.marked[r][c]
    \/ \A i \in 1..Shape(board.marked)[1] :
          i <= Shape(board.marked)[2] => board.marked[i][i]

\* Board.do_we_have_a_winner
do_we_have_a_winner(board) ==
    \/ \E r \in DOMAIN board.marked :
          \A c \in DOMAIN board.marked[r] : board.marked[r][c]
    \/ \E c \in 1..Shape(board.marked)[2] :
          \A r \in DOMAIN board.marked : board.marked[r][c]

\* Variant of FindFrom that keeps the last matching cell instead of the first
RECURSIVE FindFrom_Last(_, _, _)
FindFrom_Last(nums, number, k) ==
    IF k >= Size(nums) THEN Size(nums)
    ELSE IF FindFrom_Last(nums, number, k + 1) < Size(nums)
         THEN FindFrom_Last(nums, number, k + 1)
    ELSE IF nums[RowOf(nums, k)][ColOf(nums, k)] = number THEN k
    ELSE Size(nums)

\* next(idx for idx, val in np.ndenumerate(self.numbers) if val == number):
\* the first cell, in row-major order from cell k on, holding number;
\* Size(nums) stands for StopIteration.
RECURSIVE FindFrom(_, _, _)
FindFrom(nums, number, k) ==
    IF k >= Size(nums) THEN Size(nums)
    ELSE IF nums[RowOf(nums, k)][ColOf(nums, k)] = number THEN k
    ELSE FindFrom(nums, number, k + 1)

\* Variant of try_to_mark_number that flips the cell instead of setting it
try_to_mark_number_Toggle(board, number) ==
    LET found_idx == FindFrom(board.numbers, number, 0)
        r == RowOf(board.numbers, found_idx)
        c == ColOf(board.numbers, found_idx)
    IN  IF found_idx = Size(board.numbers)
        THEN [board |-> board, returned |-> FALSE]
        ELSE [board |-> [board EXCEPT !.marked[r][c] = ~board.marked[r][c]],
              returned |-> TRUE]

\* Board.try_to_mark_number: the board after the call and the value returned
try_to_mark_number(board, number) ==
    LET found_idx == FindFrom(board.numbers, number, 0)
    IN  IF found_idx = Size(board.numbers)
        THEN [board |-> board, returned |-> FALSE]
        ELSE [board |-> [board EXCEPT
                  !.marked[RowOf(board.numbers, found_idx)]
                          [ColOf(board.numbers, found_idx)] = TRUE],
              returned |-> TRUE]

\* Variant of score that takes a missing winning_number for 0
score_NoneAsZero(board) ==
    IF board.winning_number = None \/ board.winning_number = Some(0)
    THEN [error |-> "", value |-> 0]
    ELSE [error |-> "", value |-> unmarked_sum(board) * board.winning_number[1]]

\* Board.score: the assert fails on a falsy winning_number (None, and 0)
score(board) ==
    IF board.winning_number = None \/ board.winning_number = Some(0)
    THEN [error |-> "AssertionError", value |-> 0]
    ELSE [error |-> "", value |-> unmarked_sum(board) * board.winning_number[1]]

----------------------------------------------------------------------------
(* Bingo *)

\* idx in self.winning_board_idx
InList(idx, list) == \E i \in DOMAIN list : list[i] = idx

\* Bingo.from_str followed by the dataclass __init__: the draws, the fresh
\* boards and the empty winning_board_idx, before __post_init__ runs.
Init ==
    /\ drawn_numbers \in UNION {[1..n -> Values] : n \in 1..MaxDraws}
    /\ \E grids \in UNION {[1..n -> NumbersGrids] : n \in 0..MaxBoards} :
          boards = [b \in DOMAIN grids |-> NewBoard(grids[b])]
    /\ winning_board_idx = <<>>
    /\ num_idx = 0
    /\ pc = "mark"
    /\ ret = [op |-> "", board |-> 0, error |-> "", value |-> 0]
    /\ VentsIdle
    /\ FnIdle

\* Variant of MarkBoards without the test `idx not in self.winning_board_idx`
MarkBoards_WonBoardsToo ==
    /\ pc = "mark"
    /\ num_idx < Len(drawn_numbers)
    /\ num_idx' = num_idx + 1
    /\ boards' = [idx \in DOMAIN boards |->
                    [try_to_mark_number(boards[idx],
                                        drawn_numbers[num_idx + 1]).board
                        EXCEPT !.winning_number = boards[idx].winning_number]]
    /\ pc' = "check"
    /\ UNCHANGED <<drawn_numbers, winning_board_idx, ret, vents_vars, fn_vars>>

\* First inner loop of __post_init__ for the next draw: every board that is
\* not in winning_board_idx tries to mark the number.
MarkBoards ==
    /\ pc = "mark"
    /\ num_idx < Len(drawn_numbers)
    /\ num_idx' = num_idx + 1
    /\ boards' = [idx \in DOMAIN boards |->
                    IF InList(idx, winning_board_idx) THEN boards[idx]
                    ELSE try_to_mark_number(boards[idx],
                                            drawn_numbers[num_idx + 1]).board]
    /\ pc' = "check"
    /\ UNCHANGED <<drawn_numbers, winning_board_idx, ret, vents_vars, fn_vars>>

\* Variant of CheckFrom that puts a new winner at the head of the list
RECURSIVE CheckFrom_Prepend(_, _, _, _)
CheckFrom_Prepend(idx, bs, wbi, num) ==
    IF idx > Len(bs) THEN [boards |-> bs, winning_board_idx |-> wbi]
    ELSE IF ~InList(idx, wbi) /\ do_we_have_a_winner(bs[idx])
         THEN CheckFrom_Prepend(idx + 1,
                        [bs EXCEPT ![idx].winning_number = Some(num)],
                        <<idx>> \o wbi, num)
         ELSE CheckFrom_Prepend(idx + 1, bs, wbi, num)

\* Variant of CheckFrom without the test `idx not in self.winning_board_idx`
RECURSIVE CheckFrom_NoGuard(_, _, _, _)
CheckFrom_NoGuard(idx, bs, wbi, num) ==
    IF idx > Len(bs) THEN [boards |-> bs, winning_board_idx |-> wbi]
    ELSE IF do_we_have_a_winner(bs[idx])
         THEN CheckFrom_NoGuard(idx + 1,
                        [bs EXCEPT ![idx].winning_number = Some(num)],
                        Append(wbi, idx), num)
         ELSE CheckFrom_NoGuard(idx + 1, bs, wbi, num)

\* Variant of CheckFrom that leaves the loop at the first winner of the draw
RECURSIVE CheckFrom_Break(_, _, _, _)
CheckFrom_Break(idx, bs, wbi, num) ==
    IF idx > Len(bs) THEN [boards |-> bs, winning_board_idx |-> wbi]
    ELSE IF ~InList(idx, wbi) /\ do_we_have_a_winner(bs[idx])
         THEN [boards |-> [bs EXCEPT ![idx].winning_number = Some(num)],
               winning_board_idx |-> Append(wbi, idx)]
         ELSE CheckFrom_Break(idx + 1, bs, wbi, num)

\* Second inner loop, from board idx on: a board not yet in the list and
\* with a full row or column gets num and is appended to the list.
RECURSIVE CheckFrom(_, _, _, _)
CheckFrom(idx, bs, wbi, num) ==
    IF idx > Len(bs) THEN [boards |-> bs, winning_board_idx |-> wbi]
    ELSE IF ~InList(idx, wbi) /\ do_we_have_a_winner(bs[idx])
         THEN CheckFrom(idx + 1,
                        [bs EXCEPT ![idx].winning_number = Some(num)],
                        Append(wbi, idx), num)
         ELSE CheckFrom(idx + 1, bs, wbi, num)

\* Variant of CheckWinners without the early return
CheckWinners_NoEarlyReturn ==
    /\ pc = "check"
    /\ LET after == CheckFrom(1, boards, winning_board_idx,
                              drawn_numbers[num_idx])
       IN  /\ boards' = after.boards
           /\ winning_board_idx' = after.winning_board_idx
           /\ pc' = "mark"
    /\ UNCHANGED <<drawn_numbers, num_idx, ret, vents_vars, fn_vars>>

\* Second inner loop of __post_init__ and the early return
CheckWinners ==
    /\ pc = "check"
    /\ LET after == CheckFrom(1, boards, winning_board_idx,
                              drawn_numbers[num_idx])
       IN  /\ boards' = after.boards
           /\ winning_board_idx' = after.winning_board_idx
           /\ pc' = IF Len(after.winning_board_idx) = Len(boards)
                    THEN "done" ELSE "mark"
    /\ UNCHANGED <<drawn_numbers, num_idx, ret, vents_vars, fn_vars>>

\* The loop over drawn_numbers is exhausted: __post_init__ returns
EndOfDraws ==
    /\ pc = "mark"
    /\ num_idx = Len(drawn_numbers)
    /\ pc' = "done"
    /\ UNCHANGED <<drawn_numbers, boards, winning_board_idx, num_idx, ret,
                   vents_vars, fn_vars>>

\* Smallest and largest board index of a non-empty index list
MinOfList(list) == CHOOSE m \in {list[i] : i \in DOMAIN list} :
                      \A i \in DOMAIN list : m <= list[i]
MaxOfList(list) == CHOOSE m \in {list[i] : i \in DOMAIN list} :
                      \A i \in DOMAIN list : m >= list[i]

\* Variant of first_winning_board that takes the smallest winning index
first_winning_board_MinIdx ==
    IF winning_board_idx # <<>> THEN MinOfList(winning_board_idx) ELSE 0

\* Variant of last_winning_board that takes the largest winning index
last_winning_board_MaxIdx ==
    IF winning_board_idx # <<>> THEN MaxOfList(winning_board_idx) ELSE 0

\* Bingo.first_winning_board: the index of the board returned, 0 for None
first_winning_board ==
    IF winning_board_idx # <<>> THEN winning_board_idx[1] ELSE 0

\* Bingo.last_winning_board: the index of the board returned, 0 for None
last_winning_board ==
    IF winning_board_idx # <<>>
    THEN winning_board_idx[Len(winning_board_idx)] ELSE 0

\* The caller asks for the first winning board
FirstWinningBoard ==
    /\ pc = "done"
    /\ ret' = [op |-> "first_winning_board", board |-> first_winning_board,
               error |-> "", value |-> 0]
    /\ UNCHANGED <<drawn_numbers, boards, winning_board_idx, num_idx, pc,
                   vents_vars, fn_vars>>

\* The caller asks for the last winning board
LastWinningBoard ==
    /\ pc = "done"
    /\ ret' = [op |-> "last_winning_board", board |-> last_winning_board,
               error |-> "", value |-> 0]
    /\ UNCHANGED <<drawn_numbers, boards, winning_board_idx, num_idx, pc,
                   vents_vars, fn_vars>>

\* The caller asks for the score of board idx
Score(idx) ==
    /\ pc = "done"
    /\ ret' = [op |-> "score", board |-> idx,
               error |-> score(boards[idx]).error,
               value |-> score(boards[idx]).value]
    /\ UNCHANGED <<drawn_numbers, boards, winning_board_idx, num_idx, pc,
                   vents_vars, fn_vars>>

Next ==
    \/ MarkBoards
    \/ CheckWinners
    \/ EndOfDraws
    \/ FirstWinningBoard
    \/ LastWinningBoard
    \/ \E idx \in DOMAIN boards : Score(idx)

Spec == Init /\ [][Next]_all_vars

TypeOK ==
    /\ pc \in {"mark", "check", "done"}
    /\ num_idx \in 0..Len(drawn_numbers)
    /\ \A i \in DOMAIN winning_board_idx : winning_board_idx[i] \in DOMAIN boards

----------------------------------------------------------------------------
(* Reference notions used by the properties *)

\* The cells of a grid, as <<row, column>>
CellsOf(grid) == (1..Len(grid)) \X (1..Len(grid[1]))

\* Row-major order of the cells
Before(c1, c2) == c1[1] < c2[1] \/ (c1[1] = c2[1] /\ c1[2] < c2[2])

CellsHolding(nums, v) == {cell \in CellsOf(nums) : nums[cell[1]][cell[2]] = v}

\* The cell of a board that a draw of v reaches: the first one holding v
IsFirstCellHolding(nums, cell, v) ==
    /\ nums[cell[1]][cell[2]] = v
    /\ \A other \in CellsOf(nums) :
          Before(other, cell) => nums[other[1]][other[2]] # v

MarkedCells(mk) == {cell \in CellsOf(mk) : mk[cell[1]][cell[2]]}

\* A grid of booleans with a full row or a full column
HasFullLine(mk) ==
    \/ \E r \in 1..Len(mk) : \A c \in 1..Len(mk[1]) : mk[r][c]
    \/ \E c \in 1..Len(mk[1]) : \A r \in 1..Len(mk) : mk[r][c]

\* The main diagonal of a grid of booleans is fully marked
HasFullDiagonal(mk) ==
    \A cell \in CellsOf(mk) : cell[1] = cell[2] => mk[cell[1]][cell[2]]

\* One of the first k draws reaches the cell of a board with these numbers
Reached(nums, cell, k) ==
    \E j \in 1..k : IsFirstCellHolding(nums, cell, drawn_numbers[j])

\* The first k draws complete a row or a column of board idx
CompleteAfter(idx, k) ==
    LET nums == boards[idx].numbers
    IN  \/ \E r \in 1..Len(nums) : \A c \in 1..Len(nums[1]) :
              Reached(nums, <<r, c>>, k)
        \/ \E c \in 1..Len(nums[1]) : \A r \in 1..Len(nums) :
              Reached(nums, <<r, c>>, k)

\* Index of the first draw after which board idx has a full line, 0 if none
FirstCompleteDraw(idx) ==
    IF ~CompleteAfter(idx, Len(drawn_numbers)) THEN 0
    ELSE CHOOSE k \in 1..Len(drawn_numbers) :
            CompleteAfter(idx, k) /\ ~CompleteAfter(idx, k - 1)

\* Number of draws whose marking and winner check are both over
Processed == IF pc = "check" THEN num_idx - 1 ELSE num_idx

\* Index of the draw on which board idx has won so far, 0 if it has not
WinDraw(idx) ==
    LET first == FirstCompleteDraw(idx)
    IN  IF first <= Processed THEN first ELSE 0

Won(idx) == InList(idx, winning_board_idx)

RECURSIVE SumOver(_, _)
SumOver(nums, cells) ==
    IF cells = {} THEN 0
    ELSE LET cell == CHOOSE x \in cells : TRUE
         IN  nums[cell[1]][cell[2]] + SumOver(nums, cells \ {cell})

----------------------------------------------------------------------------
(* Properties *)

\* C1: in the winner check of a draw v, a board that has not yet won is
\* recorded as won (winning number v, appended to the win order) exactly
\* when its marked grid has a full row or a full column; a full diagonal
\* without a full row or column does not make it win.
C1_WonIffFullRowOrColumn ==
    [][pc = "check" =>
        \A idx \in DOMAIN boards :
            ~Won(idx) =>
                IF HasFullLine(boards[idx].marked)
                THEN /\ InList(idx, winning_board_idx')
                     /\ boards'[idx].winning_number
                            = Some(drawn_numbers[num_idx])
                ELSE /\ ~InList(idx, winning_board_idx')
                     /\ boards'[idx].winning_number = None]_vars

C1_Witness ==
    /\ pc = "done"
    /\ \E idx \in DOMAIN boards :
          /\ HasFullDiagonal(boards[idx].marked)
          /\ ~HasFullLine(boards[idx].marked)
          /\ ~Won(idx)
    /\ \E idx \in DOMAIN boards : Won(idx) /\ HasFullLine(boards[idx].marked)

\* The winning number of every board is the value of its win draw
C2_WinningNumberInv ==
    \A idx \in DOMAIN boards :
        boards[idx].winning_number =
            IF WinDraw(idx) = 0 THEN None
            ELSE Some(drawn_numbers[WinDraw(idx)])

\* C2: a board's winning number is unset until the first draw after which
\* the board has a full row or column, is the value of that draw from then
\* on, and once set no step changes it.
C2_WinningNumberSetOnce ==
    /\ []C2_WinningNumberInv
    /\ [][\A idx \in DOMAIN boards :
            boards[idx].winning_number # None =>
                boards'[idx].winning_number = boards[idx].winning_number]_vars

C2_Witness ==
    /\ pc = "mark"
    /\ \E idx \in DOMAIN boards :
          /\ WinDraw(idx) > 0
          /\ WinDraw(idx) < Processed
          /\ boards[idx].winning_number # Some(drawn_numbers[Processed])

\* The boards that have won, each with its win draw: pairs <<idx, draw>>
Wins == {w \in {<<idx, WinDraw(idx)>> : idx \in DOMAIN boards} : w[2] > 0}

\* Win w1 is not after win w2 in replay order
WinsBefore(w1, w2) == w1[2] < w2[2] \/ (w1[2] = w2[2] /\ w1[1] <= w2[1])

\* C3: first_winning_board() returns the board that won on the smallest
\* draw index, the smallest board index among those that won on that draw,
\* and None (0) when no board has won.
C3_FirstWinner ==
    ret.op = "first_winning_board" =>
        LET wins == Wins
        IN  IF wins = {} THEN ret.board = 0
            ELSE \E w \in wins :
                    /\ w[1] = ret.board
                    /\ \A other \in wins : WinsBefore(w, other)

C3_Witness ==
    /\ ret.op = "first_winning_board"
    /\ ret.board = 2
    /\ Len(boards) = 2
    /\ WinDraw(1) > 0
    /\ WinDraw(2) < WinDraw(1)

\* C4: last_winning_board() returns the board with the latest win position
\* among the boards that won (largest draw index, largest board index among
\* those that won on that draw), never a board that did not win, and None
\* (0) when no board has won.
C4_LastWinner ==
    ret.op = "last_winning_board" =>
        LET wins == Wins
        IN  IF wins = {} THEN ret.board = 0
            ELSE /\ boards[ret.board].winning_number # None
                 /\ \E w \in wins :
                        /\ w[1] = ret.board
                        /\ \A other \in wins : WinsBefore(other, w)

C4_Witness ==
    /\ ret.op = "last_winning_board"
    /\ ret.board = 1
    /\ Len(boards) = 2
    /\ WinDraw(2) > 0
    /\ WinDraw(2) < WinDraw(1)

\* C5: for every board recorded as won, score() returns unmarked_sum()
\* times the board's winning number, whatever that number is (0 included).
C5_ScoreOfWonBoard ==
    (ret.op = "score" /\ boards[ret.board].winning_number # None) =>
        /\ ret.error = ""
        /\ ret.value = SumOver(boards[ret.board].numbers,
                               CellsOf(boards[ret.board].numbers)
                                   \ MarkedCells(boards[ret.board].marked))
                       * boards[ret.board].winning_number[1]

\* Boards no draw completes are not won, and their score is an error
C6_NeverWonInv ==
    /\ pc = "done" =>
          \A idx \in DOMAIN boards :
              FirstCompleteDraw(idx) = 0 =>
                  boards[idx].winning_number = None /\ ~Won(idx)
    /\ (ret.op = "score" /\ FirstCompleteDraw(ret.board) = 0) =>
          ret.error # ""

\* C6: a board that never completes a row or column stays not won (no
\* winning number, absent from the win order); score() on it fails with an
\* error, and a query changes no board, draw or win order.
C6_NeverWonBoard ==
    /\ []C6_NeverWonInv
    /\ [][ret' # ret =>
            UNCHANGED <<boards, drawn_numbers, winning_board_idx>>]_vars

C6_Witness ==
    /\ ret.op = "score"
    /\ FirstCompleteDraw(ret.board) = 0
    /\ MarkedCells(boards[ret.board].marked) # {}
    /\ \E idx \in DOMAIN boards : Won(idx)

\* C7: boards that complete a row or column on the same draw are all
\* recorded as won on that draw, all with that draw's value.
C7_SameDrawWinners ==
    LET firsts == {<<idx, FirstCompleteDraw(idx)>> : idx \in DOMAIN boards}
    IN  \A p, q \in firsts :
            (p[2] = q[2] /\ p[2] \in 1..Processed) =>
                /\ Won(p[1]) /\ Won(q[1])
                /\ boards[p[1]].winning_number = Some(drawn_numbers[p[2]])
                /\ boards[q[1]].winning_number = boards[p[1]].winning_number

C7_Witness ==
    /\ pc = "done"
    /\ \E i, j \in DOMAIN boards :
          /\ i # j
          /\ WinDraw(i) > 0
          /\ WinDraw(i) = WinDraw(j)
          /\ boards[i].numbers # boards[j].numbers

\* C8: for every board, at every point of the replay, unmarked_sum() plus
\* the sum of the numbers of the marked cells is the sum of all the numbers
\* of the board, and marked has the shape of numbers.
C8_SumsAndShape ==
    \A idx \in DOMAIN boards :
        /\ unmarked_sum(boards[idx])
              + SumOver(boards[idx].numbers, MarkedCells(boards[idx].marked))
           = SumOver(boards[idx].numbers, CellsOf(boards[idx].numbers))
        /\ Shape(boards[idx].marked) = Shape(boards[idx].numbers)
        /\ \A r \in DOMAIN boards[idx].numbers :
              DOMAIN boards[idx].marked[r] = DOMAIN boards[idx].numbers[r]

C8_Witness ==
    \E idx \in DOMAIN boards :
        /\ Won(idx)
        /\ unmarked_sum(boards[idx]) > 0
        /\ SumOver(boards[idx].numbers, MarkedCells(boards[idx].marked)) > 0

\* Effect of try_to_mark_number on every board for every value
C9_MarkInv ==
    \A idx \in DOMAIN boards : \A v \in Values :
        LET after == try_to_mark_number(boards[idx], v)
        IN  /\ CellsHolding(boards[idx].numbers, v) = {} =>
                  after.board = boards[idx] /\ after.returned = FALSE
            /\ (\E cell \in CellsHolding(boards[idx].numbers, v) :
                    boards[idx].marked[cell[1]][cell[2]]) =>
                  after.board = boards[idx]
            /\ MarkedCells(boards[idx].marked)
                  \subseteq MarkedCells(after.board.marked)

\* C9: try_to_mark_number(v) on a board of the replay leaves marked
\* unchanged and returns False when v is absent from the board, leaves
\* marked unchanged when the cell holding v is already marked, and never
\* unmarks a cell; no step of the replay unmarks a cell.
C9_MarkingIdempotent ==
    /\ []C9_MarkInv
    /\ [][\A idx \in DOMAIN boards :
            MarkedCells(boards[idx].marked)
                \subseteq MarkedCells(boards'[idx].marked)]_vars

C9_Witness ==
    /\ pc = "check"
    /\ num_idx >= 2
    /\ \E idx \in DOMAIN boards :
          /\ ~Won(idx)
          /\ \E j \in 1..(num_idx - 1) : drawn_numbers[j] = drawn_numbers[num_idx]
          /\ \E cell \in CellsHolding(boards[idx].numbers, drawn_numbers[num_idx]) :
                boards[idx].marked[cell[1]][cell[2]]
          /\ \E j \in 1..(num_idx - 1) :
                CellsHolding(boards[idx].numbers, drawn_numbers[j]) = {}

\* C10 as stated: after the marking of draw v, on every board not yet won
\* every cell holding v is marked and no cell holding another number has
\* changed.
C10_EveryCellMarked ==
    [][pc = "mark" /\ pc' = "check" =>
        \A idx \in DOMAIN boards :
            ~Won(idx) =>
                \A cell \in CellsOf(boards[idx].numbers) :
                    IF boards[idx].numbers[cell[1]][cell[2]]
                           = drawn_numbers[num_idx']
                    THEN boards'[idx].marked[cell[1]][cell[2]]
                    ELSE boards'[idx].marked[cell[1]][cell[2]]
                           = boards[idx].marked[cell[1]][cell[2]]]_vars

\* C10 amended: after the marking of draw v, on every board not yet won the
\* first cell in row-major order holding v is marked and no other cell has
\* changed.
C10_FirstCellMarked ==
    [][pc = "mark" /\ pc' = "check" =>
        \A idx \in DOMAIN boards :
            ~Won(idx) =>
                \A cell \in CellsOf(boards[idx].numbers) :
                    IF IsFirstCellHolding(boards[idx].numbers, cell,
                                          drawn_numbers[num_idx'])
                    THEN boards'[idx].marked[cell[1]][cell[2]]
                    ELSE boards'[idx].marked[cell[1]][cell[2]]
                           = boards[idx].marked[cell[1]][cell[2]]]_vars

C10_Witness ==
    /\ pc = "check"
    /\ \E idx \in DOMAIN boards :
          /\ ~Won(idx)
          /\ \E c1, c2 \in CellsHolding(boards[idx].numbers,
                                        drawn_numbers[num_idx]) :
                /\ Before(c1, c2)
                /\ boards[idx].marked[c1[1]][c1[2]]
                /\ ~boards[idx].marked[c2[1]][c2[2]]

----------------------------------------------------------------------------
(* Hydrothermal vents (day5.py): Point and Segment *)

\* Bounds of the vents model: a lone segment has its coordinates in
\* 0..MaxCoord; a map of several segments has at most MaxSegments segments
\* with coordinates in 0..MaxMapCoord.
MaxCoord == 3
MaxMapCoord == 1
MaxSegments == 3

\* Point(x, y)
Point(x, y) == <<x, y>>
X(p) == p[1]
Y(p) == p[2]

\* Segment.is_vertical
is_vertical(seg) == X(seg.from) = X(seg.to)

\* Segment.is_horizontal
is_horizontal(seg) == Y(seg.from) = Y(seg.to)

\* Segment.is_diagonal_anti_slash
is_diagonal_anti_slash(seg) ==
    \/ X(seg.from) < X(seg.to) /\ Y(seg.from) < Y(seg.to)
    \/ X(seg.from) > X(seg.to) /\ Y(seg.from) > Y(seg.to)

\* Segment.is_diagonal_slash
is_diagonal_slash(seg) ==
    \/ X(seg.from) < X(seg.to) /\ Y(seg.from) > Y(seg.to)
    \/ X(seg.from) > X(seg.to) /\ Y(seg.from) < Y(seg.to)

Swapped(seg) == [from |-> seg.to, to |-> seg.from]

\* Variant of Segment.__post_init__ that leaves the horizontal segments as
\* given
Segment_post_init_NoHorizontalSwap(seg) ==
    IF is_vertical(seg) /\ Y(seg.from) > Y(seg.to) THEN Swapped(seg)
    ELSE IF is_diagonal_anti_slash(seg) /\ X(seg.from) > X(seg.to)
         THEN Swapped(seg)
    ELSE IF is_diagonal_slash(seg) /\ X(seg.from) > X(seg.to)
         THEN Swapped(seg)
    ELSE seg

\* Variant of Segment.__post_init__ that leaves the diagonals as given
Segment_post_init_NoDiagonalSwap(seg) ==
    IF is_horizontal(seg) /\ X(seg.from) > X(seg.to) THEN Swapped(seg)
    ELSE IF is_vertical(seg) /\ Y(seg.from) > Y(seg.to) THEN Swapped(seg)
    ELSE seg

\* Variant of Segment.__post_init__ that leaves the vertical segments as given
Segment_post_init_NoVerticalSwap(seg) ==
    IF is_horizontal(seg) /\ X(seg.from) > X(seg.to) THEN Swapped(seg)
    ELSE IF is_diagonal_anti_slash(seg) /\ X(seg.from) > X(seg.to)
         THEN Swapped(seg)
    ELSE IF is_diagonal_slash(seg) /\ X(seg.from) > X(seg.to)
         THEN Swapped(seg)
    ELSE seg

\* Segment.__post_init__: the segment after the normalisation
Segment_post_init(seg) ==
    IF is_horizontal(seg) /\ X(seg.from) > X(seg.to) THEN Swapped(seg)
    ELSE IF is_vertical(seg) /\ Y(seg.from) > Y(seg.to) THEN Swapped(seg)
    ELSE IF is_diagonal_anti_slash(seg) /\ X(seg.from) > X(seg.to)
         THEN Swapped(seg)
    ELSE IF is_diagonal_slash(seg) /\ X(seg.from) > X(seg.to)
         THEN Swapped(seg)
    ELSE seg

\* Segment(_from, _to): the dataclass __init__ followed by __post_init__
Segment(from, to) == Segment_post_init([from |-> from, to |-> to])

\* list(range(start, stop)) and list(range(start, stop, -1))
RangeUp(start, stop) ==
    [i \in 1..(IF stop > start THEN stop - start ELSE 0) |-> start + i - 1]
RangeDown(start, stop) ==
    [i \in 1..(IF start > stop THEN start - stop ELSE 0) |-> start - i + 1]

MinLen(s, t) == IF Len(s) <= Len(t) THEN Len(s) ELSE Len(t)

\* [Point(x, y) for (x, y) in zip(xs, ys)]
ZipPoints(xs, ys) == [i \in 1..MinLen(xs, ys) |-> Point(xs[i], ys[i])]

\* Variant of Segment.all_points whose range of y on a slash diagonal has no
\* step of -1
Segment_all_points_NoStep(seg) ==
    IF is_horizontal(seg)
    THEN [error |-> "",
          points |-> [i \in DOMAIN RangeUp(X(seg.from), X(seg.to) + 1) |->
                        Point(RangeUp(X(seg.from), X(seg.to) + 1)[i],
                              Y(seg.from))]]
    ELSE IF is_vertical(seg)
    THEN [error |-> "",
          points |-> [i \in DOMAIN RangeUp(Y(seg.from), Y(seg.to) + 1) |->
                        Point(X(seg.from),
                              RangeUp(Y(seg.from), Y(seg.to) + 1)[i])]]
    ELSE IF is_diagonal_anti_slash(seg)
    THEN [error |-> "",
          points |-> ZipPoints(RangeUp(X(seg.from), X(seg.to) + 1),
                               RangeUp(Y(seg.from), Y(seg.to) + 1))]
    ELSE IF is_diagonal_slash(seg)
    THEN [error |-> "",
          points |-> ZipPoints(RangeUp(X(seg.from), X(seg.to) + 1),
                               RangeUp(Y(seg.from), Y(seg.to) - 1))]
    ELSE [error |-> "ValueError", points |-> <<>>]

\* Variant of Segment.all_points whose ranges leave out the last value
Segment_all_points_ShortRange(seg) ==
    IF is_horizontal(seg)
    THEN [error |-> "",
          points |-> [i \in DOMAIN RangeUp(X(seg.from), X(seg.to)) |->
                        Point(RangeUp(X(seg.from), X(seg.to))[i], Y(seg.from))]]
    ELSE IF is_vertical(seg)
    THEN [error |-> "",
          points |-> [i \in DOMAIN RangeUp(Y(seg.from), Y(seg.to)) |->
                        Point(X(seg.from), RangeUp(Y(seg.from), Y(seg.to))[i])]]
    ELSE IF is_diagonal_anti_slash(seg)
    THEN [error |-> "",
          points |-> ZipPoints(RangeUp(X(seg.from), X(seg.to)),
                               RangeUp(Y(seg.from), Y(seg.to)))]
    ELSE IF is_diagonal_slash(seg)
    THEN [error |-> "",
          points |-> ZipPoints(RangeUp(X(seg.from), X(seg.to)),
                               RangeDown(Y(seg.from), Y(seg.to)))]
    ELSE [error |-> "ValueError", points |-> <<>>]

\* Segment.all_points: the list returned, or the error raised
Segment_all_points(seg) ==
    IF is_horizontal(seg)
    THEN [error |-> "",
          points |-> [i \in DOMAIN RangeUp(X(seg.from), X(seg.to) + 1) |->
                        Point(RangeUp(X(seg.from), X(seg.to) + 1)[i],
                              Y(seg.from))]]
    ELSE IF is_vertical(seg)
    THEN [error |-> "",
          points |-> [i \in DOMAIN RangeUp(Y(seg.from), Y(seg.to) + 1) |->
                        Point(X(seg.from),
                              RangeUp(Y(seg.from), Y(seg.to) + 1)[i])]]
    ELSE IF is_diagonal_anti_slash(seg)
    THEN [error |-> "",
          points |-> ZipPoints(RangeUp(X(seg.from), X(seg.to) + 1),
                               RangeUp(Y(seg.from), Y(seg.to) + 1))]
    ELSE IF is_diagonal_slash(seg)
    THEN [error |-> "",
          points |-> ZipPoints(RangeUp(X(seg.from), X(seg.to) + 1),
                               RangeDown(Y(seg.from), Y(seg.to) - 1))]
    ELSE [error |-> "ValueError", points |-> <<>>]

----------------------------------------------------------------------------
(* Hydrothermal vents (day5.py): HydrothermalVentsMap *)

IsHOrV(seg) == is_vertical(seg) \/ is_horizontal(seg)

\* Variant of h_or_v_segments that keeps every segment
h_or_v_segments_All(segs) == segs

\* HydrothermalVentsMap.h_or_v_segments
h_or_v_segments(segs) == SelectSeq(segs, IsHOrV)

\* list(itertools.chain.from_iterable(seg.all_points() for seg in segs)):
\* the points of the segments from the i-th on, or the first error raised
RECURSIVE ChainPoints(_, _)
ChainPoints(segs, i) ==
    IF i > Len(segs) THEN [error |-> "", points |-> <<>>]
    ELSE LET head == Segment_all_points(segs[i])
             tail == ChainPoints(segs, i + 1)
         IN  IF head.error # "" THEN head
             ELSE IF tail.error # "" THEN tail
             ELSE [error |-> "", points |-> head.points \o tail.points]

\* HydrothermalVentsMap.all_points_hv
all_points_hv(segs) == ChainPoints(h_or_v_segments(segs), 1)

\* HydrothermalVentsMap.all_points
all_points(segs) == ChainPoints(segs, 1)

\* Counter(points): the count of each distinct point, as pairs <<p, count>>
Counter(points) ==
    {<<points[i], Cardinality({j \in DOMAIN points : points[j] = points[i]})>> :
        i \in DOMAIN points}

\* Variant of the overlap count that adds up the extra coverings of a point
CountOverlaps_Extra(points) ==
    Len(points) - Cardinality(Counter(points))

\* len(list(filter(lambda pair: pair[1] >= 2, counter.most_common())))
CountOverlaps(points) ==
    Cardinality({pair \in Counter(points) : pair[2] >= 2})

\* HydrothermalVentsMap.nb_overlaps_hv
nb_overlaps_hv(segs) ==
    LET all == all_points_hv(segs)
    IN  [error |-> all.error,
         count |-> IF all.error # "" THEN 0 ELSE CountOverlaps(all.points)]

\* Variant of nb_overlaps_full that asks for more than two coverings
nb_overlaps_full_MoreThanTwo(segs) ==
    LET all == all_points(segs)
    IN  [error |-> all.error,
         count |-> IF all.error # "" THEN 0
                   ELSE Cardinality({pair \in Counter(all.points) : pair[2] > 2})]

\* HydrothermalVentsMap.nb_overlaps_full
nb_overlaps_full(segs) ==
    LET all == all_points(segs)
    IN  [error |-> all.error,
         count |-> IF all.error # "" THEN 0 ELSE CountOverlaps(all.points)]

----------------------------------------------------------------------------
(* Hydrothermal vents: calls made on a map *)

GridPoints(n) == {Point(x, y) : x \in 0..n, y \in 0..n}

\* The pairs of endpoints a segment can be given
EndpointPairs(n) == [from : GridPoints(n), to : GridPoints(n)]

\* Sequences of at most n elements of S
SeqsUpTo(S, n) == UNION {[1..k -> S] : k \in 0..n}

\* HydrothermalVentsMap(segments=[Segment(e._from, e._to) for e in ends])
BuildMap(ends) ==
    /\ endpoints = ends
    /\ segments = [i \in DOMAIN ends |-> Segment(ends[i].from, ends[i].to)]
    /\ raw_segments = <<>>
    /\ vpc = "ready"
    /\ vret = NoRet
    /\ first_ret = {}

\* A map holding one segment of the large grid
SegmentInit ==
    /\ BingoIdle
    /\ FnIdle
    /\ \E e \in EndpointPairs(MaxCoord) : BuildMap(<<e>>)

\* A map holding several segments of the small grid
VentsInit ==
    /\ BingoIdle
    /\ FnIdle
    /\ \E ends \in SeqsUpTo(EndpointPairs(MaxMapCoord), MaxSegments) :
            BuildMap(ends)

\* A method of the map returns r: r is also kept when it is the first call
\* of that method, and flagged when it is not
Return(r) ==
    /\ vret' = [r EXCEPT !.again = \E f \in first_ret : f.op = r.op]
    /\ first_ret' = IF \E f \in first_ret : f.op = r.op
                    THEN first_ret
                    ELSE first_ret \cup {r}

\* self.segments[i].all_points()
CallSegmentAllPoints(i) ==
    /\ vpc = "ready"
    /\ i \in DOMAIN segments
    /\ LET res == Segment_all_points(segments[i])
       IN  vret' = [op |-> "Segment.all_points", seg |-> i,
                    error |-> res.error, points |-> res.points, count |-> 0,
                    again |-> FALSE]
    /\ UNCHANGED <<raw_segments, endpoints, segments, vpc, first_ret, vars, fn_vars>>

\* self.all_points()
CallAllPoints ==
    /\ vpc = "ready"
    /\ LET res == all_points(segments)
       IN  Return([op |-> "all_points", seg |-> 0,
                   error |-> res.error, points |-> res.points, count |-> 0,
                   again |-> FALSE])
    /\ UNCHANGED <<raw_segments, endpoints, segments, vpc, vars, fn_vars>>

\* Variant of the call of nb_overlaps_hv that consumes the segments it counted
CallNbOverlapsHv_Consume ==
    /\ vpc = "ready"
    /\ LET res == nb_overlaps_hv(segments)
       IN  Return([op |-> "nb_overlaps_hv", seg |-> 0,
                   error |-> res.error, points |-> <<>>, count |-> res.count,
                   again |-> FALSE])
    /\ segments' = SelectSeq(segments, LAMBDA seg : ~IsHOrV(seg))
    /\ UNCHANGED <<raw_segments, endpoints, vpc, vars, fn_vars>>

\* self.nb_overlaps_hv()
CallNbOverlapsHv ==
    /\ vpc = "ready"
    /\ LET res == nb_overlaps_hv(segments)
       IN  Return([op |-> "nb_overlaps_hv", seg |-> 0,
                   error |-> res.error, points |-> <<>>, count |-> res.count,
                   again |-> FALSE])
    /\ UNCHANGED <<raw_segments, endpoints, segments, vpc, vars, fn_vars>>

\* self.nb_overlaps_full()
CallNbOverlapsFull ==
    /\ vpc = "ready"
    /\ LET res == nb_overlaps_full(segments)
       IN  Return([op |-> "nb_overlaps_full", seg |-> 0,
                   error |-> res.error, points |-> <<>>, count |-> res.count,
                   again |-> FALSE])
    /\ UNCHANGED <<raw_segments, endpoints, segments, vpc, vars, fn_vars>>

VentsNext ==
    \/ \E i \in 1..MaxSegments : CallSegmentAllPoints(i)
    \/ CallAllPoints
    \/ CallNbOverlapsHv
    \/ CallNbOverlapsFull

\* One segment, every position of the large grid
SpecSegment == SegmentInit /\ [][VentsNext]_all_vars

\* Several segments of the small grid
SpecVents == VentsInit /\ [][VentsNext]_all_vars

VentsTypeOK ==
    /\ vpc \in {"parse", "ready", "failed"}
    /\ Len(endpoints) = Len(segments)
    /\ vret.op \in {"", "Segment.all_points", "all_points",
                    "nb_overlaps_hv", "nb_overlaps_full", "from_str"}
    /\ \A f \in first_ret : f.op # ""

----------------------------------------------------------------------------
(* Hydrothermal vents: reference notions, defined on the endpoints as given *)

Abs(n) == IF n < 0 THEN -n ELSE n
Dx(e) == X(e.to) - X(e.from)
Dy(e) == Y(e.to) - Y(e.from)
Lo(a, b) == IF a <= b THEN a ELSE b
Hi(a, b) == IF a <= b THEN b ELSE a
SetOf(seq) == {seq[i] : i \in DOMAIN seq}

\* The line through the endpoints is horizontal, vertical, or at 45 degrees
IsHLine(e) == Dy(e) = 0
IsVLine(e) == Dx(e) = 0
Is45Line(e) == Dx(e) # 0 /\ Abs(Dx(e)) = Abs(Dy(e))
IsLine(e) == IsHLine(e) \/ IsVLine(e) \/ Is45Line(e)

\* The grid points of the line between the endpoints
Covers(e, p) ==
    /\ Lo(X(e.from), X(e.to)) <= X(p) /\ X(p) <= Hi(X(e.from), X(e.to))
    /\ Lo(Y(e.from), Y(e.to)) <= Y(p) /\ Y(p) <= Hi(Y(e.from), Y(e.to))
    /\ (X(p) - X(e.from)) * Dy(e) = (Y(p) - Y(e.from)) * Dx(e)

\* Segment.all_points has just been called on the segment built from e
CalledOn(e) ==
    /\ vret.op = "Segment.all_points"
    /\ vret.seg \in DOMAIN endpoints
    /\ endpoints[vret.seg] = e

----------------------------------------------------------------------------
(* Claims on Segment.all_points *)

\* C11: a segment that is neither horizontal, vertical nor at 45 degrees is
\* rejected with an error: all_points() of the segment and of the map raise
\* and produce no point list for it.
C11_NonLineRejected ==
    \A i \in DOMAIN endpoints :
        ~IsLine(endpoints[i]) =>
            /\ CalledOn(endpoints[i]) /\ vret.seg = i =>
                    vret.error # "" /\ vret.points = <<>>
            /\ vret.op = "all_points" => vret.error # "" /\ vret.points = <<>>

\* C12: all_points() of a horizontal segment returns |dx|+1 points, the
\* points of the common y between the two x, whichever endpoint comes first;
\* likewise for a vertical segment; equal endpoints give that one point.
C12_HorizontalVerticalPoints ==
    \A i \in DOMAIN endpoints :
        LET e == endpoints[i] IN
        CalledOn(e) /\ vret.seg = i =>
            /\ IsHLine(e) =>
                /\ vret.error = ""
                /\ Len(vret.points) = Abs(Dx(e)) + 1
                /\ SetOf(vret.points) =
                       {Point(x, Y(e.from)) :
                            x \in Lo(X(e.from), X(e.to))..Hi(X(e.from), X(e.to))}
            /\ IsVLine(e) =>
                /\ vret.error = ""
                /\ Len(vret.points) = Abs(Dy(e)) + 1
                /\ SetOf(vret.points) =
                       {Point(X(e.from), y) :
                            y \in Lo(Y(e.from), Y(e.to))..Hi(Y(e.from), Y(e.to))}
            /\ e.from = e.to => vret.points = <<e.from>>

C12_Witness ==
    /\ vret.op = "Segment.all_points"
    /\ IsHLine(endpoints[1])
    /\ X(endpoints[1].from) > X(endpoints[1].to)
    /\ Len(vret.points) = MaxCoord + 1

\* C13: all_points() of a 45-degree diagonal, of either slope and either
\* order of the endpoints, returns |dx|+1 points containing both endpoints,
\* and two consecutive points differ by exactly 1 in x and 1 in y, the two
\* steps having the same sign on a rising diagonal and opposite signs on a
\* falling one.
C13_DiagonalPoints ==
    \A i \in DOMAIN endpoints :
        LET e == endpoints[i] IN
        CalledOn(e) /\ vret.seg = i /\ Is45Line(e) =>
            /\ vret.error = ""
            /\ Len(vret.points) = Abs(Dx(e)) + 1
            /\ e.from \in SetOf(vret.points)
            /\ e.to \in SetOf(vret.points)
            /\ \A k \in 1..(Len(vret.points) - 1) :
                LET sx == X(vret.points[k + 1]) - X(vret.points[k])
                    sy == Y(vret.points[k + 1]) - Y(vret.points[k])
                IN  /\ Abs(sx) = 1
                    /\ Abs(sy) = 1
                    /\ (sx = sy) <=> (Dx(e) * Dy(e) > 0)

C13_Witness ==
    /\ vret.op = "Segment.all_points"
    /\ Is45Line(endpoints[1])
    /\ Dx(endpoints[1]) < 0 /\ Dy(endpoints[1]) > 0
    /\ Len(vret.points) = MaxCoord + 1

\* C14 as stated: all_points() of a 45-degree diagonal lists the points from
\* the first endpoint given toward the second one.
C14_FromFirstEndpoint ==
    \A i \in DOMAIN endpoints :
        LET e == endpoints[i] IN
        CalledOn(e) /\ vret.seg = i /\ Is45Line(e) =>
            /\ Len(vret.points) = Abs(Dx(e)) + 1
            /\ vret.points[1] = e.from
            /\ vret.points[Len(vret.points)] = e.to

\* C14: all_points() of a 45-degree diagonal lists the points by increasing
\* x, from the endpoint of smaller x to the endpoint of larger x, whichever
\* endpoint is given first.
C14_ByIncreasingX ==
    \A i \in DOMAIN endpoints :
        LET e == endpoints[i]
            left == IF X(e.from) < X(e.to) THEN e.from ELSE e.to
            right == IF X(e.from) < X(e.to) THEN e.to ELSE e.from
        IN
        CalledOn(e) /\ vret.seg = i /\ Is45Line(e) =>
            /\ Len(vret.points) = Abs(Dx(e)) + 1
            /\ vret.points[1] = left
            /\ vret.points[Len(vret.points)] = right
            /\ \A k \in 1..(Len(vret.points) - 1) :
                    X(vret.points[k + 1]) = X(vret.points[k]) + 1

C14_Witness ==
    /\ vret.op = "Segment.all_points"
    /\ Is45Line(endpoints[1])
    /\ Dx(endpoints[1]) = -2 /\ Dy(endpoints[1]) = 2
    /\ Len(vret.points) = 3
    /\ vret.points[1] = endpoints[1].to

\* C15: the segment built from (A, B) and the segment built from (B, A)
\* yield the same set of points, for horizontal, vertical and 45-degree
\* segments.
C15_SameSetBothOrders ==
    \A i \in DOMAIN endpoints :
        LET e == endpoints[i]
            other == Segment_all_points(Segment(e.to, e.from))
        IN
        CalledOn(e) /\ vret.seg = i /\ IsLine(e) =>
            /\ vret.error = other.error
            /\ SetOf(vret.points) = SetOf(other.points)
            /\ SetOf(vret.points) # {}

C15_Witness ==
    /\ vret.op = "Segment.all_points"
    /\ IsVLine(endpoints[1])
    /\ Y(endpoints[1].from) > Y(endpoints[1].to)
    /\ Len(vret.points) >= 2

----------------------------------------------------------------------------
(* Claims on the overlap counts of HydrothermalVentsMap *)

\* The grid points of either grid
AllGridPoints == GridPoints(Hi(MaxCoord, MaxMapCoord))

\* The segments given, among those of indices I, whose line covers p
Covering(I, p) == {i \in I : Covers(endpoints[i], p)}

\* The indices of the horizontal or vertical segments given
HVGiven == {i \in DOMAIN endpoints :
                IsHLine(endpoints[i]) \/ IsVLine(endpoints[i])}

\* The grid points covered by two at least of the segments of indices I
CoveredTwice(I) == {p \in AllGridPoints : Cardinality(Covering(I, p)) >= 2}

\* The first result of the method op of the map
FirstOf(op) == {f \in first_ret : f.op = op}

\* C16: for every collection of segments, nb_overlaps_full() is at least
\* nb_overlaps_hv().
C16_FullAtLeastHv ==
    \A f \in FirstOf("nb_overlaps_full"), h \in FirstOf("nb_overlaps_hv") :
        /\ f.error = "" /\ h.error = ""
        /\ f.count >= h.count

C16_Witness ==
    \E f \in FirstOf("nb_overlaps_full"), h \in FirstOf("nb_overlaps_hv") :
        h.count >= 1 /\ f.count > h.count

\* C17: nb_overlaps_hv() is the number of distinct grid points covered by
\* two or more of the horizontal or vertical segments: the diagonals
\* contribute nothing, and each point of two identical axis-aligned segments
\* counts once.
C17_HvCount ==
    vret.op = "nb_overlaps_hv" =>
        /\ vret.error = ""
        /\ vret.count = Cardinality(CoveredTwice(HVGiven))

C17_Witness ==
    /\ vret.op = "nb_overlaps_hv"
    /\ \E i, j \in HVGiven, d \in DOMAIN endpoints :
        /\ i # j
        /\ endpoints[i] = endpoints[j]
        /\ endpoints[i].from # endpoints[i].to
        /\ vret.count = Abs(Dx(endpoints[i])) + Abs(Dy(endpoints[i])) + 1
        /\ Is45Line(endpoints[d])
        /\ \E p \in AllGridPoints : {i, j, d} \subseteq Covering(DOMAIN endpoints, p)

\* C18: nb_overlaps_full() is the number of distinct points covered by two
\* or more of all the segments (horizontal, vertical and 45-degree
\* diagonals); a point covered three times or more still counts once.
C18_FullCount ==
    vret.op = "nb_overlaps_full" /\ (\A i \in DOMAIN endpoints :
                                        IsLine(endpoints[i])) =>
        /\ vret.error = ""
        /\ vret.count = Cardinality(CoveredTwice(DOMAIN endpoints))

C18_Witness ==
    /\ vret.op = "nb_overlaps_full"
    /\ vret.count = 1
    /\ \E p \in AllGridPoints :
        /\ Cardinality(Covering(DOMAIN endpoints, p)) = 3
        /\ \E i \in Covering(DOMAIN endpoints, p) : Is45Line(endpoints[i])
        /\ \E i \in Covering(DOMAIN endpoints, p) : IsHLine(endpoints[i])

\* A method of the map that is called again returns what its first call
\* returned
C19_SameAsFirstCall ==
    \A f \in first_ret :
        f.op = vret.op => f = [vret EXCEPT !.again = FALSE]

\* C19: calling all_points(), nb_overlaps_hv() and nb_overlaps_full() any
\* number of times in any order leaves the segments and their endpoints
\* unchanged, and each call returns the same result as the first call of
\* that method.
C19_CallsArePure ==
    /\ []C19_SameAsFirstCall
    /\ [][segments' = segments /\ endpoints' = endpoints]_all_vars

C19_Witness ==
    /\ Cardinality(first_ret) = 3
    /\ vret.op = "nb_overlaps_hv"
    /\ vret.again
    /\ vret.count >= 1
    /\ \E f \in FirstOf("nb_overlaps_full") : f.count > vret.count
    /\ \E f \in FirstOf("all_points") : Len(f.points) >= 5

----------------------------------------------------------------------------
(* Hydrothermal vents: the text of a map and its parsing *)

\* Bounds of the texts: at most MaxLines lines, of at most MaxParts parts
\* separated by arrows, each of at most MaxFields fields separated by commas
MaxLines == 2
MaxParts == 2
MaxFields == 2

\* A line of text is a sequence of tokens: the arrow " -> ", the comma, the
\* characters of the fields, and "->" for an arrow that has lost a space.
\* A text is the sequence of its lines.
ARROW == " -> "
COMMA == ","
BrokenArrow == "->"

\* The fields written in the texts: nothing, a number, not a number
FieldTexts == {<<>>, <<"1">>, <<"x">>}

\* sep.join(seqs), from the i-th element on
RECURSIVE Join(_, _, _)
Join(seqs, sep, i) ==
    IF i > Len(seqs) THEN <<>>
    ELSE IF i = Len(seqs) THEN seqs[i]
    ELSE seqs[i] \o <<sep>> \o Join(seqs, sep, i + 1)

\* The lines that can be written: parts joined by arrows, each part being
\* fields joined by commas
PartTexts == {Join(fs, COMMA, 1) :
                fs \in UNION {[1..k -> FieldTexts] : k \in 1..MaxFields}}
LineTexts == {Join(ps, ARROW, 1) :
                ps \in UNION {[1..k -> PartTexts] : k \in 1..MaxParts}}

\* str.strip() on a line: an arrow at either end loses its outer space
LStrip(line) ==
    IF line # <<>> /\ line[1] = ARROW
    THEN [line EXCEPT ![1] = BrokenArrow] ELSE line
RStrip(line) ==
    IF line # <<>> /\ line[Len(line)] = ARROW
    THEN [line EXCEPT ![Len(line)] = BrokenArrow] ELSE line
Strip(line) == RStrip(LStrip(line))

\* text.strip().splitlines(): the blank lines at both ends are dropped, and
\* the first and the last of the lines left are stripped at their outer end
StripLines(text) ==
    LET filled == {i \in DOMAIN text : text[i] # <<>>}
    IN  IF filled = {} THEN <<>>
        ELSE LET first == CHOOSE i \in filled : \A j \in filled : i <= j
                 last == CHOOSE i \in filled : \A j \in filled : j <= i
                 kept == [k \in 1..(last - first + 1) |-> text[first + k - 1]]
                 left == [kept EXCEPT ![1] = LStrip(kept[1])]
             IN  [left EXCEPT ![Len(left)] = RStrip(left[Len(left)])]

\* line.split(sep), the current piece being cur, from the i-th token on
RECURSIVE SplitFrom(_, _, _, _)
SplitFrom(line, sep, i, cur) ==
    IF i > Len(line) THEN <<cur>>
    ELSE IF line[i] = sep THEN <<cur>> \o SplitFrom(line, sep, i + 1, <<>>)
    ELSE SplitFrom(line, sep, i + 1, Append(cur, line[i]))
Split(line, sep) == SplitFrom(line, sep, 1, <<>>)

Contains(line, token) == \E i \in DOMAIN line : line[i] = token

\* int(field): the value of a sequence of digits, an error for anything else
DigitValue ==
    [d \in {"0", "1", "2", "3", "4", "5", "6", "7", "8", "9"} |->
        CASE d = "0" -> 0 [] d = "1" -> 1 [] d = "2" -> 2 [] d = "3" -> 3
          [] d = "4" -> 4 [] d = "5" -> 5 [] d = "6" -> 6 [] d = "7" -> 7
          [] d = "8" -> 8 [] d = "9" -> 9]
RECURSIVE DecimalValue(_, _)
DecimalValue(field, n) ==
    IF n = 0 THEN 0
    ELSE 10 * DecimalValue(field, n - 1) + DigitValue[field[n]]
IntOf(field) ==
    IF field = <<>> \/ \E i \in DOMAIN field : field[i] \notin DOMAIN DigitValue
    THEN [error |-> "ValueError", value |-> 0]
    ELSE [error |-> "", value |-> DecimalValue(field, Len(field))]

NoPoint == Point(0, 0)

\* Point.from_str
Point_from_str(raw_point) ==
    IF ~Contains(raw_point, COMMA)
    THEN [error |-> "AssertionError", point |-> NoPoint]
    ELSE LET fields == Split(Strip(raw_point), COMMA)
         IN  IF Len(fields) # 2
             THEN [error |-> "ValueError", point |-> NoPoint]
             ELSE LET x == IntOf(fields[1])
                      y == IntOf(fields[2])
                  IN  IF x.error # "" THEN [error |-> x.error, point |-> NoPoint]
                      ELSE IF y.error # ""
                      THEN [error |-> y.error, point |-> NoPoint]
                      ELSE [error |-> "", point |-> Point(x.value, y.value)]

NoEnds == [from |-> NoPoint, to |-> NoPoint]

\* Segment.from_str: the two points read, before Segment(...) is applied
Segment_from_str(raw_segment) ==
    IF ~Contains(raw_segment, ARROW)
    THEN [error |-> "AssertionError", ends |-> NoEnds]
    ELSE LET raw_points == Split(Strip(raw_segment), ARROW)
             from == Point_from_str(raw_points[1])
         IN  IF from.error # "" THEN [error |-> from.error, ends |-> NoEnds]
             ELSE IF Len(raw_points) < 2
             THEN [error |-> "IndexError", ends |-> NoEnds]
             ELSE LET to == Point_from_str(raw_points[2])
                  IN  IF to.error # ""
                      THEN [error |-> to.error, ends |-> NoEnds]
                      ELSE [error |-> "",
                            ends |-> [from |-> from.point, to |-> to.point]]

\* [Segment.from_str(line) for line in lines], from the i-th line on, keeping
\* the segments read before a failure
RECURSIVE ReadLines_Keep(_, _)
ReadLines_Keep(lines, i) ==
    IF i > Len(lines) THEN [error |-> "", ends |-> <<>>]
    ELSE LET head == Segment_from_str(lines[i])
         IN  IF head.error # "" THEN [error |-> head.error, ends |-> <<>>]
             ELSE LET tail == ReadLines_Keep(lines, i + 1)
                  IN  [error |-> tail.error,
                       ends |-> <<head.ends>> \o tail.ends]

\* [Segment.from_str(line) for line in lines], from the i-th line on
RECURSIVE ReadLines(_, _)
ReadLines(lines, i) ==
    IF i > Len(lines) THEN [error |-> "", ends |-> <<>>]
    ELSE LET head == Segment_from_str(lines[i])
         IN  IF head.error # "" THEN [error |-> head.error, ends |-> <<>>]
             ELSE LET tail == ReadLines(lines, i + 1)
                  IN  IF tail.error # ""
                      THEN [error |-> tail.error, ends |-> <<>>]
                      ELSE [error |-> "", ends |-> <<head.ends>> \o tail.ends]

\* Variant of HydrothermalVentsMap.from_str that keeps the segments read
\* before a malformed line
from_str_KeepRead(text) == ReadLines_Keep(StripLines(text), 1)

\* HydrothermalVentsMap.from_str: the endpoints read, or the error raised
from_str(text) == ReadLines(StripLines(text), 1)

\* A text to be parsed
ParseInit ==
    /\ BingoIdle
    /\ FnIdle
    /\ raw_segments \in SeqsUpTo(LineTexts, MaxLines)
    /\ endpoints = <<>>
    /\ segments = <<>>
    /\ vpc = "parse"
    /\ vret = NoRet
    /\ first_ret = {}

\* hvm = HydrothermalVentsMap.from_str(raw_segments)
FromStr ==
    /\ vpc = "parse"
    /\ LET res == from_str(raw_segments)
       IN  /\ vpc' = IF res.error = "" THEN "ready" ELSE "failed"
           /\ endpoints' = res.ends
           /\ segments' = [i \in DOMAIN res.ends |->
                               Segment(res.ends[i].from, res.ends[i].to)]
           /\ vret' = [NoRet EXCEPT !.op = "from_str", !.error = res.error]
    /\ UNCHANGED <<raw_segments, first_ret, vars, fn_vars>>

ParseNext ==
    \/ FromStr
    \/ VentsNext

\* A text is parsed, then the map is used
SpecParse == ParseInit /\ [][ParseNext]_all_vars

----------------------------------------------------------------------------
(* Claim on the parsing of a map *)

\* The positions that bound the pieces of a line cut at the tokens of seps
Cuts(line, seps) ==
    {0, Len(line) + 1} \cup {i \in DOMAIN line : line[i] \in seps}

\* The pieces of a line cut at the tokens of seps, as pairs of consecutive cuts
Pieces(line, seps) ==
    {c \in Cuts(line, seps) \X Cuts(line, seps) :
        /\ c[1] < c[2]
        /\ \A k \in Cuts(line, seps) : ~(c[1] < k /\ k < c[2])}

\* The texts of the two points of a line: its first two pieces between arrows
PointPieces(line) ==
    {c \in Pieces(line, {ARROW}) :
        Cardinality({d \in Pieces(line, {ARROW}) : d[1] < c[1]}) < 2}

\* The texts of the coordinates of the two points of a line
CoordinatePieces(line) ==
    {c \in Pieces(line, {ARROW, COMMA}) :
        \E q \in PointPieces(line) : q[1] <= c[1] /\ c[2] <= q[2]}

\* The three kinds of malformed lines: no arrow, a point without a comma, a
\* coordinate that is not an integer
MissingArrow(line) == \A i \in DOMAIN line : line[i] # ARROW
MissingComma(line) ==
    \E c \in PointPieces(line) :
        \A i \in (c[1] + 1)..(c[2] - 1) : line[i] # COMMA
NonInteger(line) ==
    \E c \in CoordinatePieces(line) :
        \/ c[2] = c[1] + 1
        \/ \E i \in (c[1] + 1)..(c[2] - 1) : line[i] \notin DOMAIN DigitValue
Malformed(line) ==
    /\ line # <<>>
    /\ MissingArrow(line) \/ MissingComma(line) \/ NonInteger(line)

----------------------------------------------------------------------------
(* Hydrothermal vents: texts made of segment lines and blank lines *)

\* Bound of these texts: at most MaxTextLines lines, each one blank or a
\* segment line whose four coordinates are digits of DigitTexts
MaxTextLines == 3
DigitTexts == {<<"0">>, <<"1">>}

\* The lines 'x1,y1 -> x2,y2'
SegmentLines ==
    {Join(<<Join(<<a, b>>, COMMA, 1), Join(<<c, d>>, COMMA, 1)>>, ARROW, 1) :
        a \in DigitTexts, b \in DigitTexts, c \in DigitTexts, d \in DigitTexts}

\* A text of segment lines and blank lines, to be parsed
LinesInit ==
    /\ BingoIdle
    /\ FnIdle
    /\ raw_segments \in SeqsUpTo(SegmentLines \cup {<<>>}, MaxTextLines)
    /\ endpoints = <<>>
    /\ segments = <<>>
    /\ vpc = "parse"
    /\ vret = NoRet
    /\ first_ret = {}

\* A text of segment lines and blank lines is parsed, then the map is used
SpecLines == LinesInit /\ [][ParseNext]_all_vars

\* The non-blank lines of a text, in the order of the text
NonBlank(text) == SelectSeq(text, LAMBDA line : line # <<>>)

\* The endpoints written on the segment line 'x1,y1 -> x2,y2'
Written(line) ==
    [from |-> Point(DigitValue[line[1]], DigitValue[line[3]]),
     to |-> Point(DigitValue[line[5]], DigitValue[line[7]])]

\* C21: HydrothermalVentsMap.from_str builds exactly one segment per
\* non-blank line, in the order of the lines; the blank lines, also those
\* between two segment lines, give no segment and no failure.
C21_OneSegmentPerNonBlankLine ==
    vret.op = "from_str" =>
        /\ vret.error = ""
        /\ vpc = "ready"
        /\ Len(segments) = Len(NonBlank(raw_segments))
        /\ endpoints = [k \in DOMAIN NonBlank(raw_segments) |->
                            Written(NonBlank(raw_segments)[k])]

----------------------------------------------------------------------------
(* Hydrothermal vents: the example of the puzzle (test_advent.py, input_day5) *)

\* The line 'x1,y1 -> x2,y2'
Line(x1, y1, x2, y2) == <<x1, COMMA, y1, ARROW, x2, COMMA, y2>>

\* The ten lines of the example
ExampleLines ==
    << Line("0", "9", "5", "9"),
       Line("8", "0", "0", "8"),
       Line("9", "4", "3", "4"),
       Line("2", "2", "2", "1"),
       Line("7", "0", "7", "4"),
       Line("6", "4", "2", "0"),
       Line("0", "9", "2", "9"),
       Line("3", "4", "1", "4"),
       Line("0", "0", "8", "8"),
       Line("5", "5", "8", "2") >>

\* The text of the example: its lines, each one ended by a newline
ExampleText == ExampleLines \o << <<>> >>

\* The text made of the first n lines of the example
ExampleUpTo(n) == SubSeq(ExampleLines, 1, n) \o << <<>> >>

\* The example, or the text of its first lines only, to be parsed
ExampleInit ==
    /\ BingoIdle
    /\ FnIdle
    /\ raw_segments \in {ExampleUpTo(n) : n \in 0..Len(ExampleLines)}
    /\ endpoints = <<>>
    /\ segments = <<>>
    /\ vpc = "parse"
    /\ vret = NoRet
    /\ first_ret = {}

\* day5(input_day5), then the map is used
SpecExample == ExampleInit /\ [][ParseNext]_all_vars

\* C23: on the example of ten segments nb_overlaps_hv() is 5 and
\* nb_overlaps_full() is 12.
C23_ExampleCounts ==
    raw_segments = ExampleText =>
        /\ vret.op = "nb_overlaps_hv" => vret.error = "" /\ vret.count = 5
        /\ vret.op = "nb_overlaps_full" => vret.error = "" /\ vret.count = 12

C23_Witness ==
    /\ raw_segments = ExampleText
    /\ Len(segments) = 10
    /\ vret.op = "nb_overlaps_full"
    /\ vret.count = 12
    /\ \E h \in FirstOf("nb_overlaps_hv") : h.count = 5

----------------------------------------------------------------------------
(* Bingo: the example of the puzzle (test_advent.py, input_day4) *)

\* The 27 numbers drawn in the example
ExampleDraws ==
    <<7, 4, 9, 5, 11, 17, 23, 2, 0, 14, 21, 24, 10, 16, 13, 6, 15, 25, 12,
      22, 18, 20, 8, 19, 3, 26, 1>>

\* The three boards of the example
ExampleGrids ==
    << << <<22, 13, 17, 11, 0>>,
          <<8, 2, 23, 4, 24>>,
          <<21, 9, 14, 16, 7>>,
          <<6, 10, 3, 18, 5>>,
          <<1, 12, 20, 15, 19>> >>,
       << <<3, 15, 0, 2, 22>>,
          <<9, 18, 13, 17, 5>>,
          <<19, 8, 7, 25, 23>>,
          <<20, 11, 10, 24, 4>>,
          <<14, 21, 16, 12, 6>> >>,
       << <<14, 21, 17, 24, 4>>,
          <<10, 16, 15, 9, 19>>,
          <<18, 8, 23, 26, 20>>,
          <<22, 11, 13, 6, 5>>,
          <<2, 0, 12, 3, 7>> >> >>

\* The game of the example, or the game of its first draws only, before the
\* replay of Bingo.__post_init__
BingoExampleInit ==
    /\ drawn_numbers \in {SubSeq(ExampleDraws, 1, n) : n \in 1..Len(ExampleDraws)}
    /\ boards = [b \in DOMAIN ExampleGrids |-> NewBoard(ExampleGrids[b])]
    /\ winning_board_idx = <<>>
    /\ num_idx = 0
    /\ pc = "mark"
    /\ ret = [op |-> "", board |-> 0, error |-> "", value |-> 0]
    /\ VentsIdle
    /\ FnIdle

\* day4(input_day4), then the winners are asked for
SpecBingoExample == BingoExampleInit /\ [][Next]_all_vars

\* C22: on the example (27 draws, three boards of 5x5) the first winning
\* board is the third board, with winning draw 24, unmarked sum 188 and
\* score 4512, and the last winning board is the second board, with winning
\* draw 13, unmarked sum 148 and score 1924.
C22_ExampleWinners ==
    drawn_numbers = ExampleDraws /\ pc = "done" =>
        /\ first_winning_board = 3
        /\ boards[3].winning_number = Some(24)
        /\ unmarked_sum(boards[3]) = 188
        /\ score(boards[3]) = [error |-> "", value |-> 4512]
        /\ last_winning_board = 2
        /\ boards[2].winning_number = Some(13)
        /\ unmarked_sum(boards[2]) = 148
        /\ score(boards[2]) = [error |-> "", value |-> 1924]
        /\ ret.op = "first_winning_board" => ret.board = 3
        /\ ret.op = "last_winning_board" => ret.board = 2
        /\ ret.op = "score" /\ ret.board = 3 => ret.value = 4512
        /\ ret.op = "score" /\ ret.board = 2 => ret.value = 1924

C22_Witness ==
    /\ drawn_numbers = ExampleDraws
    /\ pc = "done"
    /\ ret = [op |-> "score", board |-> 2, error |-> "", value |-> 1924]

----------------------------------------------------------------------------
(* Claims on the replay of a bingo game *)

\* The cells of board idx that the draws up to its win have reached
ReachedAtWin(idx) ==
    {cell \in CellsOf(boards[idx].numbers) :
        Reached(boards[idx].numbers, cell, FirstCompleteDraw(idx))}

\* The marks and the unmarked sum of a board recorded as won are those of
\* the moment it won
C26_MarksOfTheWin ==
    \A idx \in DOMAIN boards :
        Won(idx) =>
            /\ MarkedCells(boards[idx].marked) = ReachedAtWin(idx)
            /\ unmarked_sum(boards[idx]) =
                   SumOver(boards[idx].numbers,
                           CellsOf(boards[idx].numbers) \ ReachedAtWin(idx))

\* C26: once a board is recorded as won no later draw changes its marked
\* grid, so that unmarked_sum() at any time after the replay is the sum of
\* the cells that were unmarked when the board won.
C26_WonBoardFrozen ==
    /\ []C26_MarksOfTheWin
    /\ [][\A idx \in DOMAIN boards :
            Won(idx) => boards'[idx].marked = boards[idx].marked]_vars

C26_Witness ==
    /\ pc = "done"
    /\ \E idx \in DOMAIN boards :
        /\ Won(idx)
        /\ \E j \in (FirstCompleteDraw(idx) + 1)..num_idx :
            \E cell \in CellsOf(boards[idx].numbers) :
                /\ IsFirstCellHolding(boards[idx].numbers, cell, drawn_numbers[j])
                /\ ~boards[idx].marked[cell[1]][cell[2]]

\* The draw on which the last of the boards wins, when they all win
LastWinDraw ==
    CHOOSE k \in {FirstCompleteDraw(idx) : idx \in DOMAIN boards} :
        \A idx \in DOMAIN boards : FirstCompleteDraw(idx) <= k

\* The replay has ended on the draw that made the last board win, or after
\* all the draws when a board never wins
C27_EndOfReplay ==
    pc = "done" /\ boards # <<>> =>
        IF \A idx \in DOMAIN boards : FirstCompleteDraw(idx) > 0
        THEN num_idx = LastWinDraw
        ELSE num_idx = Len(drawn_numbers)

\* C27: the replay stops as soon as every board has won: no draw after the
\* one on which the last board wins is processed; when a board never wins,
\* every draw is processed exactly once, in the order of the draws, and the
\* replay ends.
C27_StopsWhenAllWon ==
    /\ []C27_EndOfReplay
    /\ [][/\ num_idx' = num_idx \/ (num_idx' = num_idx + 1 /\ pc = "mark")
          /\ pc = "done" => num_idx' = num_idx /\ boards' = boards
                            /\ pc' = "done"]_vars

C27_Witness ==
    /\ pc = "done"
    /\ Len(boards) = 2
    /\ Len(winning_board_idx) = 2
    /\ FirstCompleteDraw(1) # FirstCompleteDraw(2)
    /\ num_idx < Len(drawn_numbers)

\* C28: at every point of the replay the list of the winners holds each
\* board index at most once, holds an index exactly when that board has a
\* winning number recorded, and is ordered by the draws of the wins, the
\* boards that won on the same draw being in the order of the boards; hence
\* the first winner has not won on a later draw than the last winner.
C28_WinOrderList ==
    /\ \A i, j \in DOMAIN winning_board_idx :
          i < j =>
            /\ winning_board_idx[i] # winning_board_idx[j]
            /\ \/ FirstCompleteDraw(winning_board_idx[i])
                      < FirstCompleteDraw(winning_board_idx[j])
               \/ /\ FirstCompleteDraw(winning_board_idx[i])
                      = FirstCompleteDraw(winning_board_idx[j])
                  /\ winning_board_idx[i] < winning_board_idx[j]
    /\ \A idx \in DOMAIN boards :
          InList(idx, winning_board_idx) <=> boards[idx].winning_number # None
    /\ winning_board_idx # <<>> =>
          FirstCompleteDraw(first_winning_board)
              <= FirstCompleteDraw(last_winning_board)

C28_Witness ==
    /\ Len(boards) = 2
    /\ winning_board_idx = <<2, 1>>
    /\ FirstCompleteDraw(2) < FirstCompleteDraw(1)
    /\ boards[1].winning_number # boards[2].winning_number

----------------------------------------------------------------------------
(* Sonar sweep (advent.py): day1 and day1_bis *)

\* Bounds of the reports: at most MaxDepths depths, each in 0..MaxDepth
MaxDepth == 2
MaxDepths == 5

\* sum(seq) for a sequence of integers
RECURSIVE SumSeq(_)
SumSeq(seq) == IF seq = <<>> THEN 0 ELSE Head(seq) + SumSeq(Tail(seq))

\* day1: len(list(filter(lambda pair: pair[0] < pair[1], pairwise(all_depth))))
day1(all_depth) ==
    Cardinality({i \in 1..(Len(all_depth) - 1) : all_depth[i] < all_depth[i + 1]})

\* more_itertools.windowed(seq, n): the windows, each one with its values
\* and the number of None that fill it. A sequence shorter than n gives one
\* window filled with None; an empty sequence gives that window too in the
\* releases where fills_empty holds, and no window in the others.
windowed(seq, n, fills_empty) ==
    IF Len(seq) >= n
    THEN [i \in 1..(Len(seq) - n + 1) |->
            [values |-> SubSeq(seq, i, i + n - 1), fill |-> 0]]
    ELSE IF seq = <<>> /\ ~fills_empty THEN <<>>
    ELSE <<[values |-> seq, fill |-> n - Len(seq)]>>

\* day1_bis: sum(w) raises TypeError on a window that holds None
day1_bis(all_depth, fills_empty) ==
    LET windowed_depth == windowed(all_depth, 3, fills_empty)
    IN  IF \E i \in DOMAIN windowed_depth : windowed_depth[i].fill > 0
        THEN [error |-> "TypeError", value |-> 0]
        ELSE [error |-> "",
              value |-> day1([i \in DOMAIN windowed_depth |->
                                SumSeq(windowed_depth[i].values)])]

\* A report of depths
Day1Init ==
    /\ BingoIdle
    /\ VentsIdle
    /\ argument \in SeqsUpTo(0..MaxDepth, MaxDepths)
    /\ outcome = NoOutcome

\* day1(all_depth)
Day1 ==
    /\ outcome' = [fn |-> "day1", error |-> "", value |-> day1(argument)]
    /\ UNCHANGED <<argument, vars, vents_vars>>

\* day1_bis(all_depth), with either release of more_itertools
Day1Bis ==
    /\ \E fills_empty \in BOOLEAN :
        LET res == day1_bis(argument, fills_empty)
        IN  outcome' = [fn |-> "day1_bis", error |-> res.error,
                        value |-> res.value]
    /\ UNCHANGED <<argument, vars, vents_vars>>

Day1Next ==
    \/ Day1
    \/ Day1Bis

SpecDay1 == Day1Init /\ [][Day1Next]_all_vars

\* The sum of the three measurements of the window that starts at i
WindowSum(depths, i) == depths[i] + depths[i + 1] + depths[i + 2]

\* The windows of three measurements whose sum is larger than the sum of
\* the previous window
LargerWindows(depths) ==
    {i \in 2..(Len(depths) - 2) : WindowSum(depths, i) > WindowSum(depths, i - 1)}

\* C25: for every list of depths day1_bis returns the number of windows of
\* three measurements whose sum is larger than the sum of the previous
\* window; a list of fewer than four measurements (also an empty list, or a
\* list of one or two measurements) gives 0.
C25_WindowIncreases ==
    outcome.fn = "day1_bis" =>
        /\ outcome.error = ""
        /\ outcome.value = Cardinality(LargerWindows(argument))

----------------------------------------------------------------------------
(* Dive (advent.py): CommandV1, CommandV2, day2 and day2bis *)

\* Bound of the courses: at most MaxCommands command lines
MaxCommands == 2

\* A command line is a sequence of tokens: words, digits and spaces
SPACE == " "
Labels == {"forward", "down", "up", "back"}
ValueTexts == {"1", "2", "x"}

\* The command lines: a label alone, or a label, a space and a value
RawCommands == {<<l>> : l \in Labels}
               \cup {<<l, SPACE, v>> : l \in Labels, v \in ValueTexts}

\* raw_command.split(): the pieces between the spaces that are not empty
SplitWords(raw_command) ==
    SelectSeq(Split(raw_command, SPACE), LAMBDA piece : piece # <<>>)

NoCommand == [delta_h |-> 0, delta_d |-> 0]

\* CommandV1.__init__: the command built, or the error raised. The name
\* `com` of the last case is bound nowhere in __init__ nor in the module.
CommandV1(raw_command) ==
    LET words == SplitWords(raw_command)
    IN  IF Len(words) # 2 THEN [error |-> "ValueError", command |-> NoCommand]
        ELSE LET label == words[1]
                 val == IntOf(words[2])
             IN  IF label \in {<<"forward">>, <<"down">>, <<"up">>}
                 THEN IF val.error # ""
                      THEN [error |-> val.error, command |-> NoCommand]
                      ELSE [error |-> "",
                            command |->
                                CASE label = <<"forward">> ->
                                        [delta_h |-> val.value, delta_d |-> 0]
                                  [] label = <<"down">> ->
                                        [delta_h |-> 0, delta_d |-> val.value]
                                  [] label = <<"up">> ->
                                        [delta_h |-> 0, delta_d |-> -val.value]]
                 ELSE [error |-> "NameError", command |-> NoCommand]

\* CommandV2.__init__: the command built, or the error raised
CommandV2(raw_command) ==
    LET words == SplitWords(raw_command)
    IN  IF Len(words) # 2
        THEN [error |-> "ValueError", command |-> [label |-> <<>>, val |-> 0]]
        ELSE LET val == IntOf(words[2])
             IN  IF val.error # ""
                 THEN [error |-> val.error,
                       command |-> [label |-> <<>>, val |-> 0]]
                 ELSE [error |-> "",
                       command |-> [label |-> words[1], val |-> val.value]]

\* [CommandV1(line) for line in raw_commands] and the same with CommandV2,
\* from the i-th line on: built[i] is what building a command from the i-th
\* line gives; the result is the commands built, or the first error raised
RECURSIVE BuildFrom(_, _)
BuildFrom(built, i) ==
    IF i > Len(built) THEN [error |-> "", commands |-> <<>>]
    ELSE LET head == built[i]
         IN  IF head.error # "" THEN [error |-> head.error, commands |-> <<>>]
             ELSE LET tail == BuildFrom(built, i + 1)
                  IN  IF tail.error # ""
                      THEN [error |-> tail.error, commands |-> <<>>]
                      ELSE [error |-> "",
                            commands |-> <<head.command>> \o tail.commands]

\* Position(h, d)
Position(h, d) == [h |-> h, d |-> d]
NoPosition == <<>>

\* day2
day2(commands) ==
    Position(SumSeq([i \in DOMAIN commands |-> commands[i].delta_h]),
             SumSeq([i \in DOMAIN commands |-> commands[i].delta_d]))

\* The loop of day2bis from the i-th command on, with the aim and the
\* position reached so far
RECURSIVE Day2BisFrom(_, _, _, _)
Day2BisFrom(commands, i, aim, pos) ==
    IF i > Len(commands) THEN [error |-> "", value |-> pos]
    ELSE LET com == commands[i]
         IN  IF com.label = <<"down">>
             THEN Day2BisFrom(commands, i + 1, aim + com.val, pos)
             ELSE IF com.label = <<"up">>
             THEN Day2BisFrom(commands, i + 1, aim - com.val, pos)
             ELSE IF com.label = <<"forward">>
             THEN Day2BisFrom(commands, i + 1, aim,
                              Position(pos.h + com.val, pos.d + aim * com.val))
             ELSE [error |-> "UnknownCommand", value |-> NoPosition]

\* day2bis
day2bis(commands) == Day2BisFrom(commands, 1, 0, Position(0, 0))

\* A course of command lines
Day2Init ==
    /\ BingoIdle
    /\ VentsIdle
    /\ argument \in SeqsUpTo(RawCommands, MaxCommands)
    /\ outcome = NoOutcome

\* day2([CommandV1(line) for line in argument])
Day2 ==
    /\ LET built == BuildFrom([i \in DOMAIN argument |-> CommandV1(argument[i])], 1)
       IN  outcome' = IF built.error # ""
                      THEN [fn |-> "CommandV1", error |-> built.error,
                            value |-> NoPosition]
                      ELSE [fn |-> "day2", error |-> "",
                            value |-> day2(built.commands)]
    /\ UNCHANGED <<argument, vars, vents_vars>>

\* day2bis([CommandV2(line) for line in argument])
Day2Bis ==
    /\ LET built == BuildFrom([i \in DOMAIN argument |-> CommandV2(argument[i])], 1)
       IN  outcome' = IF built.error # ""
                      THEN [fn |-> "CommandV2", error |-> built.error,
                            value |-> NoPosition]
                      ELSE [fn |-> "day2bis",
                            error |-> day2bis(built.commands).error,
                            value |-> day2bis(built.commands).value]
    /\ UNCHANGED <<argument, vars, vents_vars>>

Day2Next ==
    \/ Day2
    \/ Day2Bis

SpecDay2 == Day2Init /\ [][Day2Next]_all_vars

\* The command line is a label, a space and an integer
WellFormedCommand(raw_command) ==
    /\ Len(raw_command) = 3
    /\ raw_command[2] = SPACE
    /\ raw_command[3] \in DOMAIN DigitValue

\* The label of the command line is none of forward, down and up
UnknownLabel(raw_command) == raw_command[1] \notin {"forward", "down", "up"}

\* A course of well-formed command lines, one of them with an unknown label
CourseWithUnknownLabel ==
    /\ \A i \in DOMAIN argument : WellFormedCommand(argument[i])
    /\ \E i \in DOMAIN argument : UnknownLabel(argument[i])

\* C29: building a CommandV1 from a command line whose label is none of
\* forward, down and up raises UnknownCommand, and day2bis raises
\* UnknownCommand when it meets a CommandV2 with such a label; in both cases
\* no position is returned.
C29_UnknownCommandRaised ==
    CourseWithUnknownLabel /\ outcome # NoOutcome =>
        /\ outcome.fn \in {"CommandV1", "day2bis"}
        /\ outcome.error = "UnknownCommand"
        /\ outcome.value = NoPosition

\* The part of C29 about day2bis alone
Day2BisUnknownCommand ==
    CourseWithUnknownLabel /\ outcome.fn \notin {"", "CommandV1"} =>
        outcome = [fn |-> "day2bis", error |-> "UnknownCommand",
                   value |-> NoPosition]

----------------------------------------------------------------------------
(* Binary diagnostic (day3.py): day3 and day3bis *)

\* Bounds of the reports: at most MaxDiagnostics strings of at most MaxBits
\* bits each
MaxBits == 3
MaxDiagnostics == 3

Bits == {"0", "1"}

\* lines_to_cols: zip(*lines) stops at the end of the shortest line
lines_to_cols(lines) ==
    IF lines = <<>> THEN <<>>
    ELSE LET shortest == CHOOSE n \in {Len(lines[i]) : i \in DOMAIN lines} :
                            \A i \in DOMAIN lines : n <= Len(lines[i])
         IN  [j \in 1..shortest |-> [i \in DOMAIN lines |-> lines[i][j]]]

\* The keys of Counter(chars): the characters in the order they first occur
RECURSIVE CounterKeys(_)
CounterKeys(chars) ==
    IF chars = <<>> THEN <<>>
    ELSE LET before == CounterKeys(SubSeq(chars, 1, Len(chars) - 1))
             last == chars[Len(chars)]
         IN  IF \E i \in DOMAIN before : before[i] = last
             THEN before
             ELSE Append(before, last)

\* Counter(chars)[c]
CounterValue(chars, c) == Cardinality({i \in DOMAIN chars : chars[i] = c})

\* Counter(chars).most_common(n): the pairs <<character, count>> by
\* decreasing count, characters of equal count in the order they first occur
most_common(chars, n) ==
    LET keys == CounterKeys(chars)
        Earlier(j, i) ==
            \/ CounterValue(chars, keys[j]) > CounterValue(chars, keys[i])
            \/ /\ CounterValue(chars, keys[j]) = CounterValue(chars, keys[i])
               /\ j < i
        Rank(i) == 1 + Cardinality({j \in DOMAIN keys : Earlier(j, i)})
        KeyAt(k) == keys[CHOOSE i \in DOMAIN keys : Rank(i) = k]
        size == IF n < Len(keys) THEN n ELSE Len(keys)
    IN  [k \in 1..size |-> <<KeyAt(k), CounterValue(chars, KeyAt(k))>>]

\* default_to = NoDefault
NoDefault == "None"

\* least_common_char: the character returned, or the error raised
least_common_char(chars, default_to) ==
    LET both == most_common(chars, 2)
    IN  IF Len(both) < 2 THEN [error |-> "IndexError", value |-> ""]
        ELSE IF default_to = NoDefault THEN [error |-> "", value |-> both[2][1]]
        ELSE IF both[1][2] = both[2][2]
        THEN [error |-> "", value |-> default_to]
        ELSE [error |-> "", value |-> both[2][1]]

\* most_common_char: the character returned, or the error raised
most_common_char(chars, default_to) ==
    LET both == most_common(chars, 2)
    IN  IF default_to = NoDefault
        THEN IF both = <<>> THEN [error |-> "IndexError", value |-> ""]
             ELSE [error |-> "", value |-> most_common(chars, 1)[1][1]]
        ELSE IF Len(both) < 2 THEN [error |-> "IndexError", value |-> ""]
        ELSE IF both[1][2] = both[2][2]
        THEN [error |-> "", value |-> default_to]
        ELSE [error |-> "", value |-> both[1][1]]

\* most_common_chars_in_cols: the string returned, or the first error raised
most_common_chars_in_cols(cols) ==
    LET chars == [j \in DOMAIN cols |-> most_common_char(cols[j], NoDefault)]
    IN  IF \E j \in DOMAIN cols : chars[j].error # ""
        THEN [error |-> "IndexError", value |-> <<>>]
        ELSE [error |-> "", value |-> [j \in DOMAIN cols |-> chars[j].value]]

\* day3: the gamma_binary of the report, or the error raised
day3(diagnostics) == most_common_chars_in_cols(lines_to_cols(diagnostics))

\* One loop of day3bis from the column idx on (the oxygen loop when most is
\* TRUE, the CO2 loop otherwise): the candidates are filtered on the character
\* of the column and the loop breaks when one candidate is left; when the
\* columns are exhausted the else branch asserts False
RECURSIVE RatingFrom(_, _, _, _)
RatingFrom(most, possible, idx, nb_cols) ==
    IF idx > nb_cols THEN [error |-> "AssertionError", value |-> <<>>]
    ELSE LET diagnostic_cols == lines_to_cols(possible)
         IN  IF idx > Len(diagnostic_cols)
             THEN [error |-> "IndexError", value |-> <<>>]
             ELSE LET col == diagnostic_cols[idx]
                      char(chars) ==
                          IF most THEN most_common_char(chars, "1")
                          ELSE least_common_char(chars, "0")
                      kept == SelectSeq(possible,
                                 LAMBDA bits : bits[idx] = char(col).value)
                  IN  IF possible # <<>> /\ char(col).error # ""
                      THEN [error |-> char(col).error, value |-> <<>>]
                      ELSE IF Len(kept) = 1
                      THEN [error |-> "", value |-> kept[1]]
                      ELSE RatingFrom(most, kept, idx + 1, nb_cols)

NoReport == <<>>

\* day3bis: the report returned, or the first error raised
day3bis(diagnostics) ==
    LET limited_report == day3(diagnostics)
        cols == lines_to_cols(diagnostics)
        oxygen == RatingFrom(TRUE, diagnostics, 1, Len(cols))
        co2 == RatingFrom(FALSE, diagnostics, 1, Len(cols))
    IN  IF limited_report.error # ""
        THEN [error |-> limited_report.error, value |-> NoReport]
        ELSE IF oxygen.error # ""
        THEN [error |-> oxygen.error, value |-> NoReport]
        ELSE IF co2.error # ""
        THEN [error |-> co2.error, value |-> NoReport]
        ELSE [error |-> "",
              value |-> [gamma_binary |-> limited_report.value,
                         oxygen_generator_binary |-> oxygen.value,
                         co2_scrubber_binary |-> co2.value]]

\* The strings of exactly n bits
BitStrings(n) == [1..n -> Bits]

\* A report: some strings of bits of one length
Day3Init ==
    /\ BingoIdle
    /\ VentsIdle
    /\ \E n \in 0..MaxBits :
          argument \in SeqsUpTo(BitStrings(n), MaxDiagnostics)
    /\ outcome = NoOutcome

\* day3(argument)
Day3 ==
    /\ outcome' = [fn |-> "day3", error |-> day3(argument).error,
                   value |-> day3(argument).value]
    /\ UNCHANGED <<argument, vars, vents_vars>>

\* day3bis(argument)
Day3Bis ==
    /\ outcome' = [fn |-> "day3bis", error |-> day3bis(argument).error,
                   value |-> day3bis(argument).value]
    /\ UNCHANGED <<argument, vars, vents_vars>>

Day3Next ==
    \/ Day3
    \/ Day3Bis

SpecDay3 == Day3Init /\ [][Day3Next]_all_vars

\* At least one string of at least one bit, and the strings pairwise distinct
DistinctDiagnostics ==
    /\ argument # <<>>
    /\ argument[1] # <<>>
    /\ \A i, j \in DOMAIN argument : i # j => argument[i] # argument[j]

\* The candidates with the bit b at the position idx
WithBit(candidates, idx, b) ==
    SelectSeq(candidates, LAMBDA bits : bits[idx] = b)

\* The bit criterion of a rating: the most common bit of the position, 1 on
\* a tie, or the least common one, 0 on a tie
CriterionBit(candidates, idx, most) ==
    LET ones == Len(WithBit(candidates, idx, "1"))
        zeros == Len(WithBit(candidates, idx, "0"))
    IN  IF most THEN (IF ones >= zeros THEN "1" ELSE "0")
        ELSE IF ones = 0 THEN "0"
        ELSE IF zeros = 0 THEN "1"
        ELSE IF zeros <= ones THEN "0" ELSE "1"

\* The rating: the candidates are filtered position after position, and the
\* filtering stops as soon as one candidate is left
RECURSIVE Rating(_, _, _)
Rating(candidates, idx, most) ==
    IF Len(candidates) = 1 \/ idx > Len(candidates[1]) THEN candidates[1]
    ELSE Rating(WithBit(candidates, idx, CriterionBit(candidates, idx, most)),
                idx + 1, most)

\* C24: for every list of one or more pairwise distinct strings of bits of
\* one length, day3bis completes without error and returns the oxygen
\* generator rating (most common bit kept, 1 on a tie) and the CO2 scrubber
\* rating (least common bit kept, 0 on a tie), also when every remaining
\* candidate has the same bit at the position considered.
C24_RatingsFound ==
    DistinctDiagnostics /\ outcome.fn = "day3bis" =>
        /\ outcome.error = ""
        /\ outcome.value.oxygen_generator_binary = Rating(argument, 1, TRUE)
        /\ outcome.value.co2_scrubber_binary = Rating(argument, 1, FALSE)

\* The part of C24 that holds: when day3bis completes, the ratings are the
\* ones of the bit criteria
RatingsWhenFound ==
    DistinctDiagnostics /\ outcome.fn = "day3bis" /\ outcome.error = "" =>
        /\ outcome.value.oxygen_generator_binary = Rating(argument, 1, TRUE)
        /\ outcome.value.co2_scrubber_binary = Rating(argument, 1, FALSE)

====
